---- MODULE Spec2Model ----
(***************************************************************************)
(* Request governance layer of medical-terminologies-mcp: the token-bucket *)
(* RateLimiter (src/src/utils/rate-limiter.ts), the retry executor         *)
(* withRetry (src/src/utils/cache.ts) and the upstream clients that        *)
(* compose them around one raw HTTP call.                                  *)
(*                                                                         *)
(* Time is in milliseconds (Date.now()).  Token levels are kept in         *)
(* thousandths of a token, so that elapsedSeconds * refillRate is the      *)
(* integer elapsedMs * refillRate and the arithmetic of refill() is exact. *)
(* The limiter reads the clock only through differences, so the state      *)
(* keeps elapsedMs = Date.now() - lastRefill and, for each pending         *)
(* setTimeout, the milliseconds that remain until it is due.               *)
(***************************************************************************)
EXTENDS Integers, Sequences, FiniteSets, TLC

\* ------------------------------------------------------------------ bounds
MaxCalls == 3
MaxCapacity == 2
MaxResets == 1
MaxRetriesOpt == 3
RandSteps == 2
MaxRequests == 2
MaxNow == 3
MaxInvocations == 2

\* The limiter instances of the program (keys of rateLimiters).
Limiters == {"who", "nlm", "rxnorm", "snomed"}
\* The instance the limiter specification drives.
UnderTest == "who"
\* Constructor options the limiter is built with in the model.
Capacities == 1..MaxCapacity
RefillRates == {250, 400}

Milli == 1000

VARIABLES
  maxTokens,    \* [limiter -> capacity, in tokens]
  refillRate,   \* [limiter -> tokens per second]
  tokens,       \* [limiter -> level, in thousandths of a token]
  elapsedMs,    \* [limiter -> Date.now() - lastRefill, capped where refill() saturates]
  queue,        \* [limiter -> sequence of queued resolve callbacks (caller ids)]
  timers,       \* [limiter -> sorted sequence of ms remaining for each pending setTimeout]
  calls,        \* history: [caller id -> what became of its acquire()]
  nextId,       \* history: id of the next acquire() call
  burstOpen,    \* history: [limiter -> only acquire() calls so far, no time passed since the first]
  resets,       \* history: [limiter -> number of reset() calls]
  releaseOrder, \* history: [limiter -> ids in the order their promises were resolved from the queue]
  reserved,     \* history: [limiter -> number of "tokens -= 1" done for acquire() callers]
  excess,       \* history: [limiter -> the most, over the intervals ending now, by which the
                \*   callers admitted in an interval exceed refillRate * its length, in thousandths]
  rt,           \* [id -> state of a withRetry(fn, options) invocation], those begun only
  backoff,      \* retry options and the delays calculateDelay returned for attempts 1, 2, ...
  req,          \* [request -> state of its call of a client operation], issued ones only
  store,        \* the cache: [key of an operation -> cached result], live entries only
  tokenCache,   \* the cached WHO access token (0: none), named by the exchange that got it
  exchanges,    \* number of access tokens the token endpoint has issued
  tokenExpiresAt, \* expiresAt of the cached access token, and the expiry of its cache entry
  env,          \* process.env: the WHO credentials the server was started with
  whoClientInstance, \* whether getWHOClient() has constructed the WHOClient
  now,          \* Date.now(), in steps of ten minutes
  data,         \* NodeCache: [composite key -> [v |-> value, t |-> expiry]]
  inv,          \* [id -> state of a cache.getOrSet(prefix, key, factory, ttl) call], begun ones only
  got,          \* what the latest cache.get(prefix, key) returned, until the next call
  written,      \* history: [<<prefix, key>> -> what was last set under it, when and by whom]
  owner         \* history: [composite key -> the <<prefix, key>> its entry was set under]

limiterVars == <<maxTokens, refillRate, tokens, elapsedMs, queue, timers>>
historyVars == <<calls, nextId, burstOpen, resets, releaseOrder, reserved, excess>>
retryVars == <<rt, backoff>>
clientVars == <<req, store, tokenCache, exchanges, tokenExpiresAt, env, whoClientInstance>>
cacheVars == <<now, data, inv, got, written, owner>>
vars == <<limiterVars, historyVars, retryVars, clientVars, cacheVars>>

\* ----------------------------------------------------------------- helpers
\* Maps with a growing and shrinking set of keys.
NoEntries == [k \in {} |-> k]
Put(f, k, v) == [x \in DOMAIN f \cup {k} |-> IF x = k THEN v ELSE f[x]]
Drop(f, k) == [x \in DOMAIN f \ {k} |-> f[x]]
Min(a, b) == IF a <= b THEN a ELSE b
Max(a, b) == IF a >= b THEN a ELSE b
CeilDiv(a, b) == (a + b - 1) \div b

\* Insert a delay into the sorted sequence of pending timers.
InsertSortedDropped(s, d) == s
RECURSIVE InsertSorted(_, _)
InsertSorted(s, d) ==
  IF s = <<>> THEN <<d>>
  ELSE IF d <= Head(s) THEN <<d>> \o s
  ELSE <<Head(s)>> \o InsertSorted(Tail(s), d)

\* ------------------------------------------------------------ RateLimiter
\* refill(): level after adding elapsedSeconds * refillRate, capped at maxTokens.
refill(tok, cap, rate, ms) == Min(cap * Milli, tok + ms * rate)

\* tokens >= 1: the admission test of acquire, tryAcquire and processQueue.
hasTokenLoose(tok) == tok > 0
hasTokenStrict(tok) == tok > Milli
hasToken(tok) == tok >= Milli

\* getWaitTime() and the delay scheduleQueueProcessing hands to setTimeout:
\* Math.max(1, Math.ceil(waitTime)).
\* With refillRate 0 the wait is Infinity, a delay setTimeout runs as 1 ms.
scheduleDelay(tok, rate) ==
  IF hasToken(tok) \/ rate = 0 THEN 1 ELSE Max(1, CeilDiv(Milli - tok, rate))

\* From this many ms on, refill() returns the capacity whatever the level.
RefillCap(l) ==
  IF refillRate[l] = 0 THEN 0 ELSE CeilDiv(maxTokens[l] * Milli, refillRate[l])
\* A queued caller's waiting time is recorded up to the time one token takes.
WaitCap(l) == IF refillRate[l] = 0 THEN 0 ELSE CeilDiv(Milli, refillRate[l])

NoCall == [lim |-> "none", status |-> "none", nth |-> 0, inBurst |-> FALSE,
           hadToken |-> FALSE, waited |-> 0]

\* queue.shift(): which end the next waiter is taken from.
shiftLast(q) == [head |-> q[Len(q)], rest |-> SubSeq(q, 1, Len(q) - 1)]
shift(q) == [head |-> Head(q), rest |-> Tail(q)]

CallsOn(l) == {i \in 1..MaxCalls : calls[i].lim = l}

\* acquire()
Acquire(l) ==
  /\ nextId <= MaxCalls
  /\ LET t == refill(tokens[l], maxTokens[l], refillRate[l], elapsedMs[l])
         n == Cardinality(CallsOn(l)) + 1
         rec == [lim |-> l, status |-> "queued", nth |-> n,
                 inBurst |-> burstOpen[l], hadToken |-> FALSE, waited |-> 0]
     IN /\ elapsedMs' = [elapsedMs EXCEPT ![l] = 0]
        /\ IF hasToken(t)
           THEN /\ tokens' = [tokens EXCEPT ![l] = t - Milli]
                /\ calls' = [calls EXCEPT ![nextId] =
                               [rec EXCEPT !.status = "immediate", !.hadToken = (t >= Milli)]]
                /\ reserved' = [reserved EXCEPT ![l] = @ + 1]
                /\ excess' = [excess EXCEPT ![l] = @ + Milli]
                /\ UNCHANGED <<queue, timers>>
           ELSE /\ tokens' = [tokens EXCEPT ![l] = t]
                /\ queue' = [queue EXCEPT ![l] = Append(@, nextId)]
                /\ timers' = [timers EXCEPT ![l] =
                                IF Len(queue[l]) = 0
                                THEN InsertSorted(@, scheduleDelay(t, refillRate[l]))
                                ELSE @]
                /\ calls' = [calls EXCEPT ![nextId] = rec]
                /\ UNCHANGED <<reserved, excess>>
  /\ nextId' = nextId + 1
  /\ UNCHANGED <<maxTokens, refillRate, burstOpen, resets, releaseOrder>>

\* A pending setTimeout of scheduleQueueProcessing comes due: processQueue().
TimerFire(l) ==
  /\ timers[l] # <<>>
  /\ Head(timers[l]) = 0
  /\ LET rest == Tail(timers[l])
         t == refill(tokens[l], maxTokens[l], refillRate[l], elapsedMs[l])
     IN IF queue[l] = <<>>
        THEN /\ timers' = [timers EXCEPT ![l] = rest]
             /\ UNCHANGED <<tokens, elapsedMs, queue, calls, releaseOrder, reserved, excess>>
        ELSE /\ elapsedMs' = [elapsedMs EXCEPT ![l] = 0]
             /\ IF hasToken(t)
                THEN LET s == shift(queue[l])
                     IN /\ tokens' = [tokens EXCEPT ![l] = t - Milli]
                        /\ queue' = [queue EXCEPT ![l] = s.rest]
                        /\ calls' = [calls EXCEPT ![s.head] =
                                       [@ EXCEPT !.status = "released", !.hadToken = (t >= Milli)]]
                        /\ releaseOrder' = [releaseOrder EXCEPT ![l] = Append(@, s.head)]
                        /\ reserved' = [reserved EXCEPT ![l] = @ + 1]
                        /\ excess' = [excess EXCEPT ![l] = @ + Milli]
                        /\ timers' = [timers EXCEPT ![l] =
                                        IF s.rest # <<>>
                                        THEN InsertSorted(rest, scheduleDelay(t - Milli, refillRate[l]))
                                        ELSE rest]
                ELSE /\ tokens' = [tokens EXCEPT ![l] = t]
                     /\ timers' = [timers EXCEPT ![l] =
                                     InsertSorted(rest, scheduleDelay(t, refillRate[l]))]
                     /\ UNCHANGED <<queue, calls, releaseOrder, reserved, excess>>
  /\ UNCHANGED <<maxTokens, refillRate, nextId, burstOpen, resets>>

\* tryAcquire()
TryAcquire(l) ==
  /\ LET t == refill(tokens[l], maxTokens[l], refillRate[l], elapsedMs[l])
     IN tokens' = [tokens EXCEPT ![l] = IF hasToken(t) THEN t - Milli ELSE t]
  /\ elapsedMs' = [elapsedMs EXCEPT ![l] = 0]
  /\ burstOpen' = [burstOpen EXCEPT ![l] = FALSE]
  /\ UNCHANGED <<maxTokens, refillRate, queue, timers, calls, nextId, resets,
                 releaseOrder, reserved>>
  /\ excess' = [excess EXCEPT ![l] =
                  IF hasToken(refill(tokens[l], maxTokens[l], refillRate[l], elapsedMs[l]))
                  THEN @ + Milli ELSE @]

\* getAvailableTokens()
GetAvailableTokens(l) ==
  /\ tokens' = [tokens EXCEPT ![l] =
                  refill(tokens[l], maxTokens[l], refillRate[l], elapsedMs[l])]
  /\ elapsedMs' = [elapsedMs EXCEPT ![l] = 0]
  /\ burstOpen' = [burstOpen EXCEPT ![l] = FALSE]
  /\ UNCHANGED <<maxTokens, refillRate, queue, timers, calls, nextId, resets,
                 releaseOrder, reserved, excess>>

\* reset()
ResetHeadOnly(l) ==
  /\ resets[l] < MaxResets
  /\ tokens' = [tokens EXCEPT ![l] = maxTokens[l] * Milli]
  /\ elapsedMs' = [elapsedMs EXCEPT ![l] = 0]
  /\ queue' = [queue EXCEPT ![l] = IF @ = <<>> THEN @ ELSE Tail(@)]
  /\ calls' = [i \in 1..MaxCalls |->
                 IF queue[l] # <<>> /\ Head(queue[l]) = i
                 THEN [calls[i] EXCEPT !.status = "flushed"]
                 ELSE calls[i]]
  /\ releaseOrder' = [releaseOrder EXCEPT ![l] =
                        IF queue[l] = <<>> THEN @ ELSE Append(@, Head(queue[l]))]
  /\ resets' = [resets EXCEPT ![l] = @ + 1]
  /\ burstOpen' = [burstOpen EXCEPT ![l] = FALSE]
  /\ excess' = [excess EXCEPT ![l] = 0]
  /\ UNCHANGED <<maxTokens, refillRate, timers, nextId, reserved>>
Reset(l) ==
  /\ resets[l] < MaxResets
  /\ tokens' = [tokens EXCEPT ![l] = maxTokens[l] * Milli]
  /\ elapsedMs' = [elapsedMs EXCEPT ![l] = 0]
  /\ queue' = [queue EXCEPT ![l] = <<>>]
  /\ calls' = [i \in 1..MaxCalls |->
                 IF \E k \in 1..Len(queue[l]) : queue[l][k] = i
                 THEN [calls[i] EXCEPT !.status = "flushed"]
                 ELSE calls[i]]
  /\ releaseOrder' = [releaseOrder EXCEPT ![l] = @ \o queue[l]]
  /\ resets' = [resets EXCEPT ![l] = @ + 1]
  /\ burstOpen' = [burstOpen EXCEPT ![l] = FALSE]
  /\ excess' = [excess EXCEPT ![l] = 0]
  /\ UNCHANGED <<maxTokens, refillRate, timers, nextId, reserved>>

\* One millisecond passes on the clock (Date.now() advances, timers come closer).
Tick ==
  /\ elapsedMs' = [l \in Limiters |-> Min(elapsedMs[l] + 1, RefillCap(l))]
  /\ timers' = [l \in Limiters |->
                  [k \in 1..Len(timers[l]) |-> Max(0, timers[l][k] - 1)]]
  /\ calls' = [i \in 1..MaxCalls |->
                 IF calls[i].status = "queued" /\ calls[i].inBurst
                 THEN [calls[i] EXCEPT !.waited = Min(@ + 1, WaitCap(calls[i].lim))]
                 ELSE calls[i]]
  /\ burstOpen' = [l \in Limiters |-> burstOpen[l] /\ CallsOn(l) = {}]
  /\ UNCHANGED <<maxTokens, refillRate, tokens, queue, nextId, resets,
                 releaseOrder, reserved>>
  /\ excess' = [l \in Limiters |-> Max(0, excess[l] - refillRate[l])]


\* ---------------------------------------------------------- retry executor
\* DEFAULT_OPTIONS
DefaultMaxRetries == 3
DefaultInitialDelay == 1000
DefaultMaxDelay == 10000
DefaultBackoffMultiplier == 2
DefaultRetryableStatusCodes == {408, 429, 500, 502, 503, 504}
DEFAULT_OPTIONS ==
  [maxRetries |-> DefaultMaxRetries, initialDelay |-> DefaultInitialDelay,
   maxDelay |-> DefaultMaxDelay, backoffMultiplier |-> DefaultBackoffMultiplier,
   retryableStatusCodes |-> DefaultRetryableStatusCodes, jitter |-> TRUE]

\* A message is the sequence of its words; "socket hang up" is kept as one word.
\* String.prototype.includes(marker) on it:
includes(msg, marker) == \E k \in 1..Len(msg) : msg[k] = marker

TransportMarkers ==
  {"ECONNRESET", "ECONNREFUSED", "ETIMEDOUT", "ENOTFOUND", "socket hang up"}

\* HTTP status codes an upstream answers with when it does not answer 2xx.
ErrorStatuses == {400, 401, 404, 408, 429, 500, 502, 503, 504}
NoResponse == 0

\* Messages of the errors axios and Node raise.
StatusMessage == <<"Request", "failed", "with", "status", "code">>
TimeoutMessage == <<"timeout", "of", "30000ms", "exceeded">>
NetworkMessages ==
  {<<"read", "ECONNRESET">>, <<"connect", "ECONNREFUSED">>, <<"connect", "ETIMEDOUT">>,
   <<"getaddrinfo", "ENOTFOUND">>, <<"socket hang up">>}
Messages == NetworkMessages \cup {StatusMessage, TimeoutMessage, <<"Network", "Error">>}

\* A thrown value, by what the executor and the clients read of it:
\* instanceof Error, message, isAxiosError, response.status, and for an ApiError
\* its code and statusCode.
RawError(isErr, isAx, resp, msg) ==
  [isError |-> isErr, isAxiosError |-> isAx, response |-> resp, message |-> msg,
   code |-> "none", statusCode |-> NoResponse]

\* Values a thunk handed to withRetry may throw: axios errors with a response
\* (axios names the status in their message) or without one (the message is
\* that of the transport failure), and other thrown values (Error instances
\* or not) with any of these messages.
AxiosErrors ==
  {RawError(TRUE, TRUE, r, StatusMessage) : r \in ErrorStatuses}
  \cup {RawError(TRUE, TRUE, NoResponse, m) : m \in Messages \ {StatusMessage}}
OtherErrors == {RawError(e, FALSE, NoResponse, m) : e \in BOOLEAN, m \in Messages}
Errors == AxiosErrors \cup OtherErrors

\* isAxiosError(error)
isAxiosError(error) == error.isAxiosError

\* isRetryableError(error, retryableStatusCodes)
isRetryableErrorStatusOnly(error, retryableStatusCodes) ==
  isAxiosError(error) /\ error.response \in retryableStatusCodes
isRetryableError(error, retryableStatusCodes) ==
  IF error.isError /\ \E mk \in TransportMarkers : includes(error.message, mk)
  THEN TRUE
  ELSE IF isAxiosError(error)
       THEN IF error.response = NoResponse
            THEN TRUE
            ELSE error.response \in retryableStatusCodes
       ELSE FALSE

RECURSIVE Pow(_, _)
Pow(b, e) == IF e = 0 THEN 1 ELSE b * Pow(b, e - 1)

\* calculateDelay(attempt, options); num / den is the draw of Math.random().
\* delay + (random * 2 - 1) * delay * 0.25 is delay * (3 + 2 * random) / 4, and
\* Math.floor leaves the whole number the delay is without jitter.
calculateDelayFromZero(attempt, options, num, den) ==
  LET exponentialDelay == options.initialDelay * Pow(options.backoffMultiplier, attempt)
      delay == Min(exponentialDelay, options.maxDelay)
  IN IF options.jitter
     THEN (delay * (3 * den + 2 * num)) \div (4 * den)
     ELSE delay
calculateDelayWide(attempt, options, num, den) ==
  LET exponentialDelay == options.initialDelay * Pow(options.backoffMultiplier, attempt - 1)
      delay == Min(exponentialDelay, options.maxDelay)
  IN IF options.jitter
     THEN (delay * (2 * den + 4 * num)) \div (4 * den)
     ELSE delay
calculateDelayAt(attempt, options, num, den) ==
  LET exponentialDelay == options.initialDelay * Pow(options.backoffMultiplier, attempt - 1)
      delay == Min(exponentialDelay, options.maxDelay)
  IN IF options.jitter
     THEN (delay * (3 * den + 2 * num)) \div (4 * den)
     ELSE delay
calculateDelay(attempt, options, rnd) == calculateDelayAt(attempt, options, rnd, RandSteps)

\* attempt > opts.maxRetries
isLastAttemptEarly(attempt, options) == attempt >= options.maxRetries
isLastAttempt(attempt, options) == attempt > options.maxRetries

NoError == RawError(FALSE, FALSE, NoResponse, <<>>)

\* error instanceof Error ? error : new Error(String(error))
wrapError(error) ==
  IF error.isError THEN error
  ELSE RawError(TRUE, FALSE, NoResponse, <<"[object Object]">>)

\* withRetry(fn, options) is called: attempt 1 runs fn at once.
retryStart(options) ==
  [pc |-> "running", opts |-> options, attempt |-> 1, fnCalls |-> 1,
   caught |-> NoError, lastError |-> NoError, lastErrorOf |-> 0, verdicts |-> <<>>,
   delay |-> 0, sleeps |-> 0]

\* await fn() resolves: withRetry returns the value.
retryOnReturn(r) == [r EXCEPT !.pc = "returned"]

\* await fn() rejects with error: the catch block of withRetry.
\* caught is the value as thrown, lastErrorOf the attempt whose error lastError
\* holds, verdicts the classification of each failed attempt.
retryOnThrow(r, error, rnd) ==
  LET isRetryable == isRetryableError(error, r.opts.retryableStatusCodes)
      caught == [r EXCEPT !.caught = error, !.lastError = wrapError(error),
                          !.lastErrorOf = r.attempt,
                          !.verdicts = Append(@, isRetryable)]
  IN IF isLastAttempt(r.attempt, r.opts) \/ ~isRetryable
     THEN [caught EXCEPT !.pc = "thrown"]
     ELSE [caught EXCEPT !.pc = "sleeping",
                         !.delay = calculateDelay(r.attempt, r.opts, rnd)]

\* await sleep(delay) resolves: attempt++ and fn runs again.
retryOnWake(r) ==
  [r EXCEPT !.pc = "running", !.attempt = @ + 1, !.fnCalls = @ + 1,
            !.sleeps = @ + 1, !.delay = 0]

\* The invocation the executor specification drives.
Standalone == 0

RetryStart(t) ==
  /\ t \notin DOMAIN rt
  /\ \E mr \in 0..MaxRetriesOpt, j \in BOOLEAN,
        codes \in {DefaultRetryableStatusCodes, {503}} :
       rt' = Put(rt, t, retryStart([DEFAULT_OPTIONS EXCEPT
                                      !.maxRetries = mr, !.jitter = j,
                                      !.retryableStatusCodes = codes]))
  /\ UNCHANGED backoff

FnReturns(t) ==
  /\ t \in DOMAIN rt
  /\ rt[t].pc = "running"
  /\ rt' = [rt EXCEPT ![t] = retryOnReturn(@)]
  /\ UNCHANGED backoff

FnThrows(t) ==
  /\ t \in DOMAIN rt
  /\ rt[t].pc = "running"
  /\ \E error \in Errors, rnd \in 0..(RandSteps - 1) :
       rt' = [rt EXCEPT ![t] = retryOnThrow(@, error, rnd)]
  /\ UNCHANGED backoff

SleepDone(t) ==
  /\ t \in DOMAIN rt
  /\ rt[t].pc = "sleeping"
  /\ rt' = [rt EXCEPT ![t] = retryOnWake(@)]
  /\ UNCHANGED backoff

\* calculateDelay is called for the next attempt of an invocation that keeps
\* failing; num / DrawSteps is the draw of Math.random().
DrawSteps == 2 * RandSteps
CalculateDelay(num) ==
  /\ Len(backoff.delays) < MaxRetriesOpt
  /\ backoff' = [backoff EXCEPT !.delays =
                   Append(@, calculateDelayAt(Len(@) + 1, backoff.opts, num, DrawSteps))]
  /\ UNCHANGED rt

NoBackoff == [opts |-> DEFAULT_OPTIONS, delays |-> <<>>]
InitRetry == rt = NoEntries /\ backoff = NoBackoff

\* Retry options a caller may pass.
DelayOptions ==
  {[DEFAULT_OPTIONS EXCEPT !.initialDelay = i, !.maxDelay = x, !.backoffMultiplier = b,
                           !.jitter = j] :
     i \in {0, 1, DefaultInitialDelay}, x \in {1500, DefaultMaxDelay}, b \in 0..3,
     j \in BOOLEAN}
InitBackoff ==
  /\ rt = NoEntries
  /\ backoff \in {[opts |-> o, delays |-> <<>>] : o \in DelayOptions}

\* ---------------------------------------------------------------- TTL cache
\* The clock of the cache is read in steps of ten minutes, the unit in which
\* every DEFAULT_TTL is whole: 86400 s, 3600 s, 600 s and 3000 s.
DEFAULT_TTL == [STATIC |-> 144, LOOKUP |-> 6, SEARCH |-> 1, TOKEN |-> 5]

\* Strings are sequences of characters.
\* CACHE_PREFIX
CACHE_PREFIX ==
  [ICD11 |-> <<"i", "c", "d", "1", "1">>, LOINC |-> <<"l", "o", "i", "n", "c">>,
   RXNORM |-> <<"r", "x", "n", "o", "r", "m">>, MESH |-> <<"m", "e", "s", "h">>,
   SNOMED |-> <<"s", "n", "o", "m", "e", "d">>, TOKEN |-> <<"t", "o", "k", "e", "n">>]

\* generateKey(prefix, key): `${prefix}:${key}`
generateKey(prefix, key) == prefix \o <<":">> \o key

\* String.prototype.startsWith
startsWith(str, head) == Len(str) >= Len(head) /\ SubSeq(str, 1, Len(head)) = head

\* What cache.get returns for a key without a live entry.
Undefined == "undefined"

\* NodeCache.set wraps the value with its expiry: the time of the call plus
\* the ttl, or 0 (never) for a ttl of 0.
wrap(value, ttl, clock) == [v |-> value, t |-> IF ttl = 0 THEN 0 ELSE clock + ttl]

\* NodeCache.get keeps an entry unless its expiry lies before the clock.
check(entry, clock) == ~(entry.t # 0 /\ entry.t < clock)

\* cache.get(prefix, key) on store d at time clock: the value returned and
\* the store it leaves (an expired entry is deleted by the lookup).
cacheGet(d, prefix, key, clock) ==
  LET cacheKey == generateKey(prefix, key)
  IN IF cacheKey \in DOMAIN d /\ check(d[cacheKey], clock)
     THEN [value |-> d[cacheKey].v, data |-> d]
     ELSE [value |-> Undefined, data |-> Drop(d, cacheKey)]

\* cache.set(prefix, key, value, ttl)
cacheSetKeepExpiry(d, prefix, key, value, ttl, clock) ==
  LET cacheKey == generateKey(prefix, key)
  IN Put(d, cacheKey,
         IF cacheKey \in DOMAIN d THEN [d[cacheKey] EXCEPT !.v = value]
         ELSE wrap(value, ttl, clock))
cacheSetIfAbsent(d, prefix, key, value, ttl, clock) ==
  LET cacheKey == generateKey(prefix, key)
  IN IF cacheKey \in DOMAIN d THEN d ELSE Put(d, cacheKey, wrap(value, ttl, clock))
cacheSet(d, prefix, key, value, ttl, clock) ==
  Put(d, generateKey(prefix, key), wrap(value, ttl, clock))

\* cache.delete(prefix, key)
cacheDelete(d, prefix, key) == Drop(d, generateKey(prefix, key))

\* cache.clearPrefix(prefix)
cacheClearPrefix(d, prefix) ==
  [k \in {x \in DOMAIN d : ~startsWith(x, prefix \o <<":">>)} |-> d[k]]

\* No cache.get has returned since the last other call.
NoGet == [prefix |-> <<>>, key |-> <<>>, value |-> Undefined, at |-> 0, asked |-> FALSE]

\* The record of a set: the value, the time of the call, the ttl, and the
\* getOrSet call that made it (0: a direct cache.set).
setRecord(value, ttl, by) == [v |-> value, at |-> now, ttl |-> ttl, by |-> by]

\* The history after a set under <<prefix, key>>.
noteSet(prefix, key, value, ttl, by) ==
  /\ written' = Put(written, <<prefix, key>>, setRecord(value, ttl, by))
  /\ owner' = Put(owner, generateKey(prefix, key), <<prefix, key>>)

\* cache.set(prefix, key, value, ttl) is called.
CacheSet(prefix, key, value, ttl) ==
  /\ data' = cacheSet(data, prefix, key, value, ttl, now)
  /\ noteSet(prefix, key, value, ttl, 0)
  /\ got' = NoGet
  /\ UNCHANGED <<now, inv>>

\* cache.get(prefix, key) is called.
CacheGet(prefix, key) ==
  LET r == cacheGet(data, prefix, key, now)
  IN /\ data' = r.data
     /\ got' = [prefix |-> prefix, key |-> key, value |-> r.value, at |-> now,
                asked |-> TRUE]
     /\ UNCHANGED <<now, inv, written, owner>>

\* cache.delete(prefix, key) is called.
CacheDelete(prefix, key) ==
  /\ data' = cacheDelete(data, prefix, key)
  /\ written' = Drop(written, <<prefix, key>>)
  /\ got' = NoGet
  /\ UNCHANGED <<now, inv, owner>>

\* cache.clearPrefix(prefix) is called.
CacheClearPrefix(prefix) ==
  /\ data' = cacheClearPrefix(data, prefix)
  /\ written' = [pair \in {x \in DOMAIN written : x[1] # prefix} |-> written[pair]]
  /\ got' = NoGet
  /\ UNCHANGED <<now, inv, owner>>

\* Results a factory resolves with, and errors it rejects with.
FactoryValues == {"v1", "v2"}
FactoryErrors == {"e1"}

\* cache.getOrSet(prefix, key, factory, ttl) is called: a hit returns the
\* cached value, a miss awaits factory().  began and order number the calls
\* and the settlements of factories in the order they happen, at and doneAt
\* are their times.
getOrSetNoHit(prefix, key, ttl, cached) ==
  [prefix |-> prefix, key |-> key, ttl |-> ttl, pc |-> "factory", hit |-> FALSE,
   cached |-> cached, factoryCalls |-> 1, made |-> Undefined, raised |-> Undefined,
   result |-> Undefined, error |-> Undefined, sets |-> 0, began |-> 0, order |-> 0,
   at |-> 0, doneAt |-> 0]
getOrSetCall(prefix, key, ttl, cached) ==
  IF cached # Undefined
  THEN [prefix |-> prefix, key |-> key, ttl |-> ttl, pc |-> "done", hit |-> TRUE,
        cached |-> cached, factoryCalls |-> 0, made |-> Undefined, raised |-> Undefined,
        result |-> cached, error |-> Undefined, sets |-> 0, began |-> 0, order |-> 0,
        at |-> 0, doneAt |-> 0]
  ELSE [prefix |-> prefix, key |-> key, ttl |-> ttl, pc |-> "factory", hit |-> FALSE,
        cached |-> Undefined, factoryCalls |-> 1, made |-> Undefined, raised |-> Undefined,
        result |-> Undefined, error |-> Undefined, sets |-> 0, began |-> 0, order |-> 0,
        at |-> 0, doneAt |-> 0]

\* Calls of getOrSet whose factory has settled, and the events so far.
Settled == Cardinality({i \in DOMAIN inv : inv[i].order > 0})
Events == Cardinality(DOMAIN inv) + Settled

\* The calls are numbered in the order they are made.
GetOrSet(i, prefix, key, ttl) ==
  /\ i = Cardinality(DOMAIN inv) + 1
  /\ LET r == cacheGet(data, prefix, key, now)
     IN /\ data' = r.data
        /\ inv' = Put(inv, i, [getOrSetCall(prefix, key, ttl, r.value) EXCEPT
                                 !.began = Events + 1, !.at = now])
  /\ got' = NoGet
  /\ UNCHANGED <<now, written, owner>>

\* await factory() resolves with value: it is set under ttl and returned.
FactoryResolves(i, value) ==
  /\ i \in DOMAIN inv
  /\ inv[i].pc = "factory"
  /\ data' = cacheSet(data, inv[i].prefix, inv[i].key, value, inv[i].ttl, now)
  /\ noteSet(inv[i].prefix, inv[i].key, value, inv[i].ttl, i)
  /\ inv' = [inv EXCEPT ![i].pc = "done", ![i].made = value, ![i].result = value,
                        ![i].sets = @ + 1, ![i].order = Events + 1, ![i].doneAt = now]
  /\ got' = NoGet
  /\ UNCHANGED now

\* await factory() rejects with error: getOrSet rejects with it.
FactoryRejectsCaching(i, error) ==
  /\ i \in DOMAIN inv
  /\ inv[i].pc = "factory"
  /\ data' = cacheSet(data, inv[i].prefix, inv[i].key, error, inv[i].ttl, now)
  /\ inv' = [inv EXCEPT ![i].pc = "done", ![i].raised = error, ![i].error = error,
                        ![i].order = Events + 1, ![i].doneAt = now]
  /\ got' = NoGet
  /\ UNCHANGED <<now, written, owner>>
FactoryRejects(i, error) ==
  /\ i \in DOMAIN inv
  /\ inv[i].pc = "factory"
  /\ inv' = [inv EXCEPT ![i].pc = "done", ![i].raised = error, ![i].error = error,
                        ![i].order = Events + 1, ![i].doneAt = now]
  /\ got' = NoGet
  /\ UNCHANGED <<now, data, written, owner>>

\* Ten minutes pass.
Advance ==
  /\ now < MaxNow
  /\ now' = now + 1
  /\ got' = NoGet
  /\ UNCHANGED <<data, inv, written, owner>>

InitCache ==
  /\ now = 0
  /\ data = NoEntries
  /\ inv = NoEntries
  /\ got = NoGet
  /\ written = NoEntries
  /\ owner = NoEntries

\* ---------------------------------------------------------- upstream clients
Clients == {"who", "mesh", "nlm", "rxnorm", "snomed"}

\* The limiter each client's request() awaits.
LimiterOfShared(client) ==
  CASE client = "who" -> "who"
    [] client = "mesh" -> "nlm"
    [] client = "nlm" -> "nlm"
    [] client = "rxnorm" -> "rxnorm"
    [] client = "snomed" -> "nlm"
LimiterOf(client) ==
  CASE client = "who" -> "who"
    [] client = "mesh" -> "nlm"
    [] client = "nlm" -> "nlm"
    [] client = "rxnorm" -> "rxnorm"
    [] client = "snomed" -> "snomed"

\* Point-lookup operations of the clients: one for each shape of request()
\* and of the factory around it.
WhoLookup == [client |-> "who", name |-> "lookup"]
WhoSearch == [client |-> "who", name |-> "search"]
MeshGetDescriptor == [client |-> "mesh", name |-> "getDescriptor"]
NlmGetLOINCDetails == [client |-> "nlm", name |-> "getLOINCDetails"]
SnomedGetConcept == [client |-> "snomed", name |-> "getConcept"]
Ops == {WhoLookup, MeshGetDescriptor, NlmGetLOINCDetails, SnomedGetConcept}
\* getEntity(uri): each uri has its own cache key.
WhoGetEntity(uri) == [client |-> "who", name |-> "getEntity", uri |-> uri]

\* Operations whose factory catches ApiError NOT_FOUND and returns null.
CatchesNotFound(op) == op \in {MeshGetDescriptor, SnomedGetConcept}

\* Bodies of a 2xx answer: a record, or an empty one (no data, zero matches).
Payloads == {"record", "empty"}

\* What the factory makes of the body request() returned.
normalise(op, payload) ==
  IF op.client = "who" THEN payload
  ELSE IF payload = "empty" THEN "null" ELSE "record"

\* Options the clients pass to withRetry around the GET, and WHOClient passes
\* around the token POST.
ClientOptions == [DEFAULT_OPTIONS EXCEPT !.maxRetries = 2]
TokenOptions == [DEFAULT_OPTIONS EXCEPT !.maxRetries = 3, !.initialDelay = 2000]

\* new ApiError(message, code, statusCode): an Error that is not an AxiosError.
ApiError(msg, code, status) ==
  [isError |-> TRUE, isAxiosError |-> FALSE, response |-> NoResponse, message |-> msg,
   code |-> code, statusCode |-> status]

Prefix(client) ==
  CASE client = "who" -> <<"WHO", "API", "error:">>
    [] client = "mesh" -> <<"MeSH", "API", "error:">>
    [] client = "nlm" -> <<"NLM", "API", "error:">>
    [] client = "rxnorm" -> <<"RxNorm", "API", "error:">>
    [] client = "snomed" -> <<"SNOMED", "CT", "API", "error:">>

NotFoundMessage(client) ==
  IF client = "who" THEN <<"Resource", "not", "found:", "path">>
  ELSE <<"Resource", "not", "found">>

\* What httpClient.get / axios.post reject with: an AxiosError carrying the
\* upstream's status, an AxiosError without a response (the request timed out
\* or the connection failed), or an error that is no AxiosError.
UpstreamStatuses == {401, 404, 429, 500}
ConnectionMessages == {<<"connect", "ECONNREFUSED">>}
ResponseErrors == {RawError(TRUE, TRUE, s, StatusMessage) : s \in UpstreamStatuses}
TimeoutError == RawError(TRUE, TRUE, NoResponse, TimeoutMessage)
ConnectionErrors == {RawError(TRUE, TRUE, NoResponse, m) : m \in ConnectionMessages}
NonAxiosError == RawError(TRUE, FALSE, NoResponse, <<"Invalid", "URL">>)
HttpErrors == ResponseErrors \cup ConnectionErrors \cup {TimeoutError, NonAxiosError}
\* What the token endpoint's POST rejects with: the credentials are refused,
\* or the request times out.
TokenErrors == {RawError(TRUE, TRUE, 401, StatusMessage), TimeoutError}

\* error.response.data.message, when the upstream sent one.
UpstreamMessage == <<"upstream", "unavailable">>
Bodies(e) == IF e.response = 500 THEN {<<>>, UpstreamMessage} ELSE {<<>>}

\* The answers to one raw HTTP call.
Answers ==
  {[ok |-> TRUE, payload |-> p, error |-> NoError, body |-> <<>>] : p \in Payloads}
  \cup
  UNION {{[ok |-> FALSE, payload |-> "none", error |-> e, body |-> b] : b \in Bodies(e)}
         : e \in HttpErrors}

\* An answer by its status, or by why there was none.
NoAnswer == [status |-> NoResponse, cause |-> "none"]
AnswerKind(a) ==
  [status |-> a.error.response,
   cause |-> IF a.ok THEN "ok"
             ELSE IF a.error.response # NoResponse THEN "response"
             ELSE IF a.error = TimeoutError THEN "timeout"
             ELSE IF a.error \in ConnectionErrors THEN "connection"
             ELSE "other"]

\* The catch block inside the thunk of request().
clientCatch(client, error, body) ==
  IF error.isAxiosError
  THEN LET status == error.response
           message == IF body # <<>> THEN body ELSE error.message
       IN IF client = "who" /\ status = 401
          THEN ApiError(<<"Authentication", "failed", "-", "token", "expired">>,
                        "AUTH_EXPIRED", status)
          ELSE IF status = 404
          THEN ApiError(NotFoundMessage(client), "NOT_FOUND", status)
          ELSE IF status = 429
          THEN ApiError(<<"Rate", "limit", "exceeded">>, "RATE_LIMIT", status)
          ELSE ApiError(Prefix(client) \o message, "API_ERROR", status)
  ELSE error

\* cache.delete(CACHE_PREFIX.TOKEN, TOKEN_CACHE_KEY) where the catch block made
\* AUTH_EXPIRED of the error: what is left of the cached token (0: nothing).
evictNever(error, cached) == cached
evictToken(error, cached) == IF error.code = "AUTH_EXPIRED" THEN 0 ELSE cached

\* A call of operation op begins.  callId names its acquire(), token the
\* access token it sends, gets counts its raw GETs, answer is the kind of the
\* latest answer and uniform tells whether every answer so far was of that
\* kind.  Of its getAccessToken(): readAt is the time it read the cache, cred
\* the number of tokens issued until then, viaExchange whether it went on to
\* the token endpoint and issuedAt the time its own token was issued.
newRequest(op) ==
  [op |-> op, pc |-> "called", callId |-> 0, token |-> 0, gets |-> 0,
   answer |-> NoAnswer, uniform |-> TRUE, fromCache |-> FALSE, result |-> "none",
   error |-> NoError, readAt |-> 0, cred |-> 0, viaExchange |-> FALSE, issuedAt |-> 0]

\* One more answer to a raw GET of the call.
answered(r, a) ==
  [r EXCEPT !.answer = AnswerKind(a),
            !.uniform = @ /\ r.answer \in {NoAnswer, AnswerKind(a)}]

Requests == 1..MaxRequests

\* The operation returns value to its caller.
returned(r, value) == [r EXCEPT !.pc = "done", !.result = value]
\* The operation rejects with error.
threw(r, error) == [r EXCEPT !.pc = "done", !.result = "threw", !.error = error]

\* withRetry around httpClient.get starts: the first raw HTTP call is sent.
sendGet(q, r, tok) ==
  /\ rt' = Put(rt, q, retryStart(ClientOptions))
  /\ req' = [req EXCEPT ![q] = [r EXCEPT !.pc = "http", !.token = tok, !.gets = 1]]

\* cachedToken && cachedToken.expiresAt > Date.now(), cachedToken being what
\* cache.get returns for the token's key.
tokenValid(cachedAs, expiresAt, clock) ==
  /\ cachedAs # 0
  /\ check([v |-> cachedAs, t |-> expiresAt], clock)
  /\ expiresAt > clock

\* !this.clientId || !this.clientSecret of the constructor, negated: both
\* environment variables are set to something non-empty.
configuredEither(e) == e.WHO_CLIENT_ID # "" \/ e.WHO_CLIENT_SECRET # ""
configured(e) == e.WHO_CLIENT_ID # "" /\ e.WHO_CLIENT_SECRET # ""

\* A tool calls an operation of the WHO client, and getWHOClient() has to
\* construct the client first: the constructor throws for want of credentials,
\* so no instance is kept and the operation is never entered.
ConstructorThrows(q, op) ==
  /\ q \notin DOMAIN req
  /\ op.client = "who"
  /\ ~whoClientInstance
  /\ ~configured(env)
  /\ req' = Put(req, q, threw(newRequest(op),
                ApiError(<<"WHO", "API", "credentials", "not", "configured">>,
                         "AUTH_CONFIG_ERROR", NoResponse)))
  /\ UNCHANGED <<limiterVars, historyVars, retryVars, store, tokenCache, exchanges,
                 tokenExpiresAt, env, whoClientInstance, cacheVars>>

\* getOrSet that runs the factory whatever the cache holds.
CallOpUncached(q, op) ==
  /\ q \notin DOMAIN req
  /\ op.client = "who" => whoClientInstance \/ configured(env)
  /\ whoClientInstance' = (whoClientInstance \/ op.client = "who")
  /\ Acquire(LimiterOf(op.client))
  /\ req' = Put(req, q, [newRequest(op) EXCEPT !.pc = "acquiring", !.callId = nextId])
  /\ UNCHANGED <<rt, store, tokenCache, exchanges, tokenExpiresAt, cacheVars, backoff, env>>

\* An operation is called: the tool gets the client from its getter, which
\* constructs it the first time.  Then cache.getOrSet returns the cached value, or runs
\* the factory, whose request() begins with await rateLimiters.X.acquire().
CallOp(q, op) ==
  /\ q \notin DOMAIN req
  /\ op.client = "who" => whoClientInstance \/ configured(env)
  /\ whoClientInstance' = (whoClientInstance \/ op.client = "who")
  /\ \/ /\ op \in DOMAIN store
        /\ req' = Put(req, q, [returned(newRequest(op), store[op]) EXCEPT
                                 !.fromCache = TRUE])
        /\ UNCHANGED <<limiterVars, historyVars>>
     \/ /\ op \notin DOMAIN store
        /\ Acquire(LimiterOf(op.client))
        /\ req' = Put(req, q, [newRequest(op) EXCEPT !.pc = "acquiring",
                                                     !.callId = nextId])
  /\ UNCHANGED <<rt, store, tokenCache, exchanges, tokenExpiresAt, cacheVars, backoff, env>>

\* The promise of acquire() has resolved: request() goes on.  WHOClient first
\* gets its access token, from the cache or by a POST under withRetry.
Admitted(q) ==
  /\ q \in DOMAIN req
  /\ req[q].pc = "acquiring"
  /\ calls[req[q].callId].status \in {"immediate", "released", "flushed"}
  /\ IF req[q].op.client = "who"
     THEN LET r == [req[q] EXCEPT !.readAt = now, !.cred = exchanges]
              expired == tokenCache # 0 /\ ~check([v |-> tokenCache, t |-> tokenExpiresAt], now)
          IN /\ IF tokenValid(tokenCache, tokenExpiresAt, now)
                THEN sendGet(q, r, tokenCache)
                ELSE /\ rt' = Put(rt, q, retryStart(TokenOptions))
                     /\ req' = [req EXCEPT ![q] = [r EXCEPT !.pc = "token",
                                                             !.viaExchange = TRUE]]
             /\ tokenCache' = IF expired THEN 0 ELSE tokenCache
             /\ tokenExpiresAt' = IF expired THEN 0 ELSE tokenExpiresAt
     ELSE /\ sendGet(q, req[q], 0)
          /\ UNCHANGED <<tokenCache, tokenExpiresAt>>
  /\ UNCHANGED <<limiterVars, historyVars, store, exchanges, cacheVars, backoff, env, whoClientInstance>>

\* The token endpoint answers the POST of getAccessToken() with a token: it
\* is cached for DEFAULT_TTL.TOKEN and request() goes on to its GET.
TokenIssued(q) ==
  /\ q \in DOMAIN req
  /\ req[q].pc = "token"
  /\ rt[q].pc = "running"
  /\ exchanges' = exchanges + 1
  /\ tokenCache' = exchanges + 1
  /\ tokenExpiresAt' = now + DEFAULT_TTL.TOKEN
  /\ sendGet(q, [req[q] EXCEPT !.issuedAt = now], exchanges + 1)
  /\ UNCHANGED <<limiterVars, historyVars, store, cacheVars, backoff, env, whoClientInstance>>

\* The token endpoint answers the POST of getAccessToken(), or the POST fails.
TokenResponds(q) ==
  /\ q \in DOMAIN req
  /\ req[q].pc = "token"
  /\ rt[q].pc = "running"
  /\ \/ TokenIssued(q)
     \/ /\ \E error \in TokenErrors, rnd \in 0..(RandSteps - 1) :
             LET r == retryOnThrow(rt[q], error, rnd)
             IN /\ rt' = IF r.pc = "thrown" THEN Drop(rt, q) ELSE [rt EXCEPT ![q] = r]
                /\ req' = [req EXCEPT ![q] =
                             IF r.pc = "thrown" THEN threw(@, r.lastError) ELSE @]
        /\ UNCHANGED <<tokenCache, exchanges, tokenExpiresAt>>
  /\ UNCHANGED <<limiterVars, historyVars, store, cacheVars, backoff, env, whoClientInstance>>

\* The upstream answers the GET of request(), or the GET fails: the thunk
\* returns the body or throws what its catch block makes of the error,
\* withRetry returns, throws or sleeps, and when it is over (its invocation
\* is then gone) the factory and getOrSet finish the operation.
HttpRespondsWith(q, a, rnd) ==
  /\ q \in DOMAIN req
  /\ req[q].pc = "http"
  /\ rt[q].pc = "running"
  /\   LET op == req[q].op
           seen == answered(req[q], a)
       IN IF a.ok
          THEN LET value == normalise(op, a.payload)
               IN /\ retryOnReturn(rt[q]).pc = "returned"
                  /\ rt' = Drop(rt, q)
                  /\ req' = [req EXCEPT ![q] = returned(seen, value)]
                  /\ store' = Put(store, op, value)
                  /\ UNCHANGED <<tokenCache, tokenExpiresAt>>
          ELSE LET error == clientCatch(op.client, a.error, a.body)
                   r == retryOnThrow(rt[q], error, rnd)
                   caughtNotFound ==
                     r.pc = "thrown" /\ CatchesNotFound(op) /\ r.lastError.code = "NOT_FOUND"
               IN /\ rt' = IF r.pc = "thrown" THEN Drop(rt, q) ELSE [rt EXCEPT ![q] = r]
                  /\ tokenCache' = evictToken(error, tokenCache)
                  /\ tokenExpiresAt' = evictToken(error, tokenExpiresAt)
                  /\ req' = [req EXCEPT ![q] =
                               IF caughtNotFound THEN returned(seen, "null")
                               ELSE IF r.pc = "thrown" THEN threw(seen, r.lastError)
                               ELSE seen]
                  /\ store' = IF caughtNotFound THEN Put(store, op, "null") ELSE store
  /\ UNCHANGED <<limiterVars, historyVars, exchanges, cacheVars, backoff, env, whoClientInstance>>
HttpResponds(q) ==
  \E a \in Answers, rnd \in 0..(RandSteps - 1) : HttpRespondsWith(q, a, rnd)

\* The sleep between two attempts is over: the thunk runs again and sends
\* the next raw HTTP call.
ClientSleepDone(q) ==
  /\ q \in DOMAIN req
  /\ req[q].pc \in {"token", "http"}
  /\ rt[q].pc = "sleeping"
  /\ rt' = [rt EXCEPT ![q] = retryOnWake(@)]
  /\ req' = [req EXCEPT ![q].gets = IF req[q].pc = "http" THEN @ + 1 ELSE @]
  /\ UNCHANGED <<limiterVars, historyVars, store, tokenCache, exchanges, tokenExpiresAt,
                 cacheVars, backoff, env, whoClientInstance>>

\* Minutes pass, d times ten: every bucket refills to its capacity and every
\* pending timer is due.
Elapse(d) ==
  /\ now + d <= 2 * MaxNow
  /\ now' = now + d
  /\ got' = NoGet
  /\ elapsedMs' = [l \in Limiters |-> RefillCap(l)]
  /\ timers' = [l \in Limiters |-> [k \in 1..Len(timers[l]) |-> 0]]
  /\ calls' = [i \in 1..MaxCalls |->
                 IF calls[i].status = "queued" /\ calls[i].inBurst
                 THEN [calls[i] EXCEPT !.waited = WaitCap(calls[i].lim)]
                 ELSE calls[i]]
  /\ burstOpen' = [l \in Limiters |-> burstOpen[l] /\ CallsOn(l) = {}]
  /\ UNCHANGED <<maxTokens, refillRate, tokens, queue, nextId, resets, releaseOrder,
                 reserved, data, inv, written, owner>>
  /\ excess' = [l \in Limiters |-> 0]

\* process.env: WHO_CLIENT_ID and WHO_CLIENT_SECRET, "" for one that is unset
\* (?? '') or set to nothing.
Environments == [WHO_CLIENT_ID : {"", "id"}, WHO_CLIENT_SECRET : {"", "secret"}]
Configured == [WHO_CLIENT_ID |-> "id", WHO_CLIENT_SECRET |-> "secret"]

\* No request yet, nothing cached, no client constructed.
InitClientIn(e) ==
  /\ req = NoEntries
  /\ store = NoEntries
  /\ tokenCache = 0
  /\ exchanges = 0
  /\ tokenExpiresAt = 0
  /\ env = e
  /\ whoClientInstance = FALSE

InitClient == InitClientIn(Configured)


\* new RateLimiter(options), initialTokens left to its default.
InitLimiterWith(c, r) ==
  /\ maxTokens = [l \in Limiters |-> c]
  /\ refillRate = [l \in Limiters |-> r]
  /\ tokens = [l \in Limiters |-> c * Milli]
  /\ elapsedMs = [l \in Limiters |-> 0]
  /\ queue = [l \in Limiters |-> <<>>]
  /\ timers = [l \in Limiters |-> <<>>]

InitHistory ==
  /\ calls = [i \in 1..MaxCalls |-> NoCall]
  /\ nextId = 1
  /\ burstOpen = [l \in Limiters |-> TRUE]
  /\ resets = [l \in Limiters |-> 0]
  /\ releaseOrder = [l \in Limiters |-> <<>>]
  /\ reserved = [l \in Limiters |-> 0]
  /\ excess = [l \in Limiters |-> 0]

InitLimiter == \E c \in Capacities, r \in RefillRates : InitLimiterWith(c, r)

\* new RateLimiter(options) with any options: the constructor stores them as
\* they are, tokens being initialTokens ?? maxTokens.
NoInitialTokens == -1
Options(c, r, i) == [maxTokens |-> c, refillRate |-> r, initialTokens |-> i]
CtorOptions ==
  {Options(1, 250, NoInitialTokens), Options(1, 250, 0), Options(1, 250, 2),
   Options(1, 0, NoInitialTokens), Options(0, 250, NoInitialTokens)}
constructor(options) ==
  [maxTokens |-> options.maxTokens, refillRate |-> options.refillRate,
   tokens |-> IF options.initialTokens = NoInitialTokens THEN options.maxTokens
              ELSE options.initialTokens]
InitLimiterOptions(options) ==
  /\ maxTokens = [l \in Limiters |-> constructor(options).maxTokens]
  /\ refillRate = [l \in Limiters |-> constructor(options).refillRate]
  /\ tokens = [l \in Limiters |-> constructor(options).tokens * Milli]
  /\ elapsedMs = [l \in Limiters |-> 0]
  /\ queue = [l \in Limiters |-> <<>>]
  /\ timers = [l \in Limiters |-> <<>>]
InitCtor ==
  /\ \E options \in CtorOptions : InitLimiterOptions(options)
  /\ InitHistory /\ InitRetry /\ InitClient /\ InitCache

Init == InitLimiter /\ InitHistory /\ InitRetry /\ InitClient /\ InitCache

\* The clients' limiters, scaled to one token that takes one millisecond.
InitClients ==
  InitLimiterWith(1, Milli) /\ InitHistory /\ InitRetry /\ InitClient /\ InitCache

\* The limiter driven through its public methods, its timers and the clock.
Next ==
  \/ Acquire(UnderTest) /\ UNCHANGED <<retryVars, clientVars, cacheVars>>
  \/ TimerFire(UnderTest) /\ UNCHANGED <<retryVars, clientVars, cacheVars>>
  \/ TryAcquire(UnderTest) /\ UNCHANGED <<retryVars, clientVars, cacheVars>>
  \/ GetAvailableTokens(UnderTest) /\ UNCHANGED <<retryVars, clientVars, cacheVars>>
  \/ Reset(UnderTest) /\ UNCHANGED <<retryVars, clientVars, cacheVars>>
  \/ Tick /\ UNCHANGED <<retryVars, clientVars, cacheVars>>

Spec == Init /\ [][Next]_vars

\* The limiter built with any options and driven the same way.
SpecCtor == InitCtor /\ [][Next]_vars

\* The same limiter under the scheduling Node guarantees: a timer that is due
\* is eventually run, and the clock keeps advancing.
SpecLive ==
  /\ Spec
  /\ WF_vars(TimerFire(UnderTest) /\ UNCHANGED <<retryVars, clientVars, cacheVars>>)
  /\ WF_vars(Tick /\ UNCHANGED <<retryVars, clientVars, cacheVars>>)

\* calculateDelay applied attempt after attempt under any retry options.
InitDelay ==
  InitLimiterWith(1, Milli) /\ InitHistory /\ InitBackoff /\ InitClient /\ InitCache

NextDelay ==
  \E num \in 0..(DrawSteps - 1) :
    CalculateDelay(num) /\ UNCHANGED <<limiterVars, historyVars, clientVars, cacheVars>>

SpecDelay == InitDelay /\ [][NextDelay]_vars

\* withRetry driven by a thunk that returns or throws any of Errors.
NextRetry ==
  \/ RetryStart(Standalone) /\ UNCHANGED <<limiterVars, historyVars, clientVars, cacheVars>>
  \/ FnReturns(Standalone) /\ UNCHANGED <<limiterVars, historyVars, clientVars, cacheVars>>
  \/ FnThrows(Standalone) /\ UNCHANGED <<limiterVars, historyVars, clientVars, cacheVars>>
  \/ SleepDone(Standalone) /\ UNCHANGED <<limiterVars, historyVars, clientVars, cacheVars>>

SpecRetry == Init /\ [][NextRetry]_vars

\* The clients' point lookups, run concurrently against upstreams that answer
\* anything, with the limiters' timers and the clock.  The clock advances by
\* milliseconds: the TTLs of the cache (an hour for a result, 50 minutes for
\* the token) do not run out while these calls are under way.
NextClient ==
  \/ \E q \in Requests, op \in Ops : CallOp(q, op)
  \/ \E q \in Requests : Admitted(q)
  \/ \E q \in Requests : TokenResponds(q)
  \/ \E q \in Requests : HttpResponds(q)
  \/ \E q \in Requests : ClientSleepDone(q)
  \/ \E l \in Limiters : TimerFire(l) /\ UNCHANGED <<retryVars, clientVars, cacheVars>>
  \/ Tick /\ UNCHANGED <<retryVars, clientVars, cacheVars>>

SpecClient == InitClients /\ [][NextClient]_vars

\* The clients' calls as far as their limiters: each call awaits acquire()
\* and waits there, while timers fire and the clock advances.
NextAdmission ==
  \/ \E q \in Requests, op \in Ops : CallOp(q, op)
  \/ \E l \in Limiters : TimerFire(l) /\ UNCHANGED <<retryVars, clientVars, cacheVars>>
  \/ Tick /\ UNCHANGED <<retryVars, clientVars, cacheVars>>

SpecAdmission == InitClients /\ [][NextAdmission]_vars

\* Authenticated requests of the WHO client, each for another entity, run
\* concurrently while the minutes pass in which the access token expires:
\* ten minutes less than its lifetime, or the lifetime.  The limiter is
\* rateLimiters.who.  The token endpoint issues a token whenever asked, and
\* the API answers a GET with the entity or with 401.
TokenRequests == 1..MaxCalls
Elapses == {DEFAULT_TTL.TOKEN - 1, DEFAULT_TTL.TOKEN}
WhoMaxTokens == 5
WhoRefillRate == 5
InitToken ==
  /\ InitLimiterWith(WhoMaxTokens, WhoRefillRate)
  /\ InitHistory /\ InitRetry /\ InitClient /\ InitCache
EntityAnswers ==
  {a \in Answers : (a.ok /\ a.payload = "record") \/ (~a.ok /\ a.error.response = 401)}

NextToken ==
  \/ \E q \in TokenRequests :
       q = Cardinality(DOMAIN req) + 1 /\ CallOp(q, WhoGetEntity(q))
  \/ \E q \in TokenRequests : Admitted(q)
  \/ \E q \in TokenRequests : TokenIssued(q)
  \/ \E q \in TokenRequests, a \in EntityAnswers : HttpRespondsWith(q, a, 0)
  \/ \E d \in Elapses : Elapse(d) /\ UNCHANGED <<retryVars, clientVars>>

SpecToken == InitToken /\ [][NextToken]_vars

\* The same requests while the clock stands still: a token once cached stays
\* valid for its whole lifetime, unless a 401 has it evicted.
NextEvict ==
  \/ \E q \in TokenRequests :
       q = Cardinality(DOMAIN req) + 1 /\ CallOp(q, WhoGetEntity(q))
  \/ \E q \in TokenRequests : Admitted(q)
  \/ \E q \in TokenRequests : TokenIssued(q)
  \/ \E q \in TokenRequests, a \in EntityAnswers : HttpRespondsWith(q, a, 0)

SpecEvict == InitToken /\ [][NextEvict]_vars

\* getParents(code): lookup(code), then getEntity(parentUri) for the parent the
\* entity names, inside try/catch.  A looked-up "record" is an entity with one
\* parent, anything else one without.  Invocation g looks up as request g and
\* gets the parent as request g + ParentsInvocations.
ParentsInvocations == 2
ParentUri == "parent"
ParentOf(g) == g + ParentsInvocations

\* const entity = await this.lookup(code, language)
ParentsLookup(g) ==
  /\ g \notin DOMAIN req
  /\ CallOp(g, WhoLookup)

\* for (const parentUri of entity.parent): await this.getEntity(parentUri)
ParentsGetEntity(g) ==
  /\ g \in DOMAIN req
  /\ req[g].pc = "done" /\ req[g].result = "record"
  /\ CallOp(ParentOf(g), WhoGetEntity(ParentUri))

\* Whether invocation g of getParents has settled, and what with: it rejects
\* with the error of lookup(); it returns [] for an entity without parents;
\* the catch block writes the error of getEntity() to stderr and the loop goes
\* on, so the parent that failed is just not in the array returned.
parentsSettled(g) ==
  /\ g \in DOMAIN req /\ req[g].pc = "done"
  /\ req[g].result = "record" =>
       ParentOf(g) \in DOMAIN req /\ req[ParentOf(g)].pc = "done"
getParents(g) ==
  IF req[g].result = "threw"
  THEN [threw |-> TRUE, error |-> req[g].error, parents |-> <<>>]
  ELSE IF req[g].result # "record"
  THEN [threw |-> FALSE, error |-> NoError, parents |-> <<>>]
  ELSE IF req[ParentOf(g)].result = "threw"
  THEN [threw |-> FALSE, error |-> NoError, parents |-> <<>>]
  ELSE [threw |-> FALSE, error |-> NoError, parents |-> <<req[ParentOf(g)].result>>]

NextParents ==
  \/ \E g \in 1..ParentsInvocations : ParentsLookup(g)
  \/ \E g \in 1..ParentsInvocations : ParentsGetEntity(g)
  \/ \E q \in 1..(2 * ParentsInvocations) : Admitted(q)
  \/ \E q \in 1..(2 * ParentsInvocations) : TokenIssued(q)
  \/ \E q \in 1..(2 * ParentsInvocations) : HttpResponds(q)
  \/ \E q \in 1..(2 * ParentsInvocations) : ClientSleepDone(q)

SpecParents == InitToken /\ [][NextParents]_vars

\* search(query, language, maxResults) of the WHO client, called with the same
\* arguments again and again within DEFAULT_TTL.SEARCH, the token endpoint
\* issuing tokens and the upstream answering with matches or with none, with
\* 500, or the connection failing (which is retried).
SearchAnswers ==
  {a \in Answers :
     \/ a.ok
     \/ a.body = <<>> /\ (a.error.response = 500 \/ a.error \in ConnectionErrors)}

NextSearch ==
  \/ \E q \in Requests : q = Cardinality(DOMAIN req) + 1 /\ CallOp(q, WhoSearch)
  \/ \E q \in Requests : Admitted(q)
  \/ \E q \in Requests : TokenIssued(q)
  \/ \E q \in Requests, a \in SearchAnswers : HttpRespondsWith(q, a, 0)
  \/ \E q \in Requests : ClientSleepDone(q)

SpecSearch == InitToken /\ [][NextSearch]_vars

\* The server started in any environment: tools call the WHO client and the
\* MeSH client, which needs no credentials.
ConfigOps == {WhoLookup, MeshGetDescriptor}
InitConfig ==
  /\ InitLimiterWith(WhoMaxTokens, WhoRefillRate)
  /\ InitHistory /\ InitRetry /\ InitCache
  /\ \E e \in Environments : InitClientIn(e)

NextConfig ==
  \/ \E q \in TokenRequests, op \in ConfigOps :
       q = Cardinality(DOMAIN req) + 1 /\ ConstructorThrows(q, op)
  \/ \E q \in TokenRequests, op \in ConfigOps :
       q = Cardinality(DOMAIN req) + 1 /\ CallOp(q, op)
  \/ \E q \in TokenRequests : Admitted(q)
  \/ \E q \in TokenRequests : TokenIssued(q)
  \/ \E q \in TokenRequests, a \in EntityAnswers : HttpRespondsWith(q, a, 0)

SpecConfig == InitConfig /\ [][NextConfig]_vars

\* The cache driven through set and get under the program's prefixes, and
\* the clock.
CachePrefixes == {CACHE_PREFIX.LOINC, CACHE_PREFIX.MESH}
CacheKeys == {<<"s", ":", "x">>}
Ttls == {DEFAULT_TTL.SEARCH, 2 * DEFAULT_TTL.SEARCH}

NextCache ==
  \/ \E prefix \in CachePrefixes, key \in CacheKeys, value \in FactoryValues, ttl \in Ttls :
       CacheSet(prefix, key, value, ttl)
         /\ UNCHANGED <<limiterVars, historyVars, retryVars, clientVars>>
  \/ \E prefix \in CachePrefixes, key \in CacheKeys :
       CacheGet(prefix, key) /\ UNCHANGED <<limiterVars, historyVars, retryVars, clientVars>>
  \/ Advance /\ UNCHANGED <<limiterVars, historyVars, retryVars, clientVars>>

SpecCache == InitClients /\ [][NextCache]_vars

\* Concurrent calls of getOrSet, with factories that resolve or reject, and
\* the clock.  A key is always used with the ttl of its class of data:
\* searches of LOINC with SEARCH, descriptors of MeSH with LOOKUP.
Invocations == 1..MaxInvocations
TtlFor(prefix) ==
  IF prefix = CACHE_PREFIX.LOINC THEN DEFAULT_TTL.SEARCH ELSE DEFAULT_TTL.LOOKUP

NextGetOrSet ==
  \/ \E i \in Invocations, prefix \in CachePrefixes, key \in CacheKeys :
       GetOrSet(i, prefix, key, TtlFor(prefix))
         /\ UNCHANGED <<limiterVars, historyVars, retryVars, clientVars>>
  \/ \E i \in Invocations, value \in FactoryValues :
       FactoryResolves(i, value)
         /\ UNCHANGED <<limiterVars, historyVars, retryVars, clientVars>>
  \/ \E i \in Invocations, error \in FactoryErrors :
       FactoryRejects(i, error)
         /\ UNCHANGED <<limiterVars, historyVars, retryVars, clientVars>>
  \/ Advance /\ UNCHANGED <<limiterVars, historyVars, retryVars, clientVars>>

SpecGetOrSet == InitClients /\ [][NextGetOrSet]_vars

\* The cache driven through set, get, delete and clearPrefix with any
\* strings for the namespace and the key.
AnyPrefixes == {<<"a">>, <<"a", ":">>}
AnyKeys == {<<>>, <<":">>}

NextKeys ==
  \/ \E prefix \in AnyPrefixes, key \in AnyKeys, value \in FactoryValues :
       CacheSet(prefix, key, value, DEFAULT_TTL.LOOKUP)
         /\ UNCHANGED <<limiterVars, historyVars, retryVars, clientVars>>
  \/ \E prefix \in AnyPrefixes, key \in AnyKeys :
       CacheGet(prefix, key) /\ UNCHANGED <<limiterVars, historyVars, retryVars, clientVars>>
  \/ \E prefix \in AnyPrefixes, key \in AnyKeys :
       CacheDelete(prefix, key)
         /\ UNCHANGED <<limiterVars, historyVars, retryVars, clientVars>>
  \/ \E prefix \in AnyPrefixes :
       CacheClearPrefix(prefix)
         /\ UNCHANGED <<limiterVars, historyVars, retryVars, clientVars>>

SpecKeys == InitClients /\ [][NextKeys]_vars

\* --------------------------------------------------------- limiter claims
Resolved(i) == calls[i].status \in {"immediate", "released"}
Burst(i) == calls[i].lim # "none" /\ calls[i].inBurst /\ resets[calls[i].lim] = 0

\* C1: of C+1 acquire() calls issued on a full bucket with no time passing
\* between them, the first C resolve immediately and the (C+1)th is queued and
\* is resolved by a wake-up at least 1/refillRate seconds after its call.
C1_Saturation ==
  \A i \in 1..MaxCalls :
    Burst(i) =>
      LET c == calls[i]
          l == c.lim
      IN /\ c.nth <= maxTokens[l] => c.status = "immediate"
         /\ c.nth = maxTokens[l] + 1 =>
              /\ c.status \in {"queued", "released"}
              /\ c.status = "released" => c.waited * refillRate[l] >= Milli

C1_Witness ==
  \E i \in 1..MaxCalls :
    /\ Burst(i)
    /\ calls[i].nth = maxTokens[calls[i].lim] + 1
    /\ calls[i].status = "released"
    /\ \A j \in 1..(i - 1) : calls[j].status = "immediate"

\* C2: the waiters of a limiter are released in the order in which they
\* called acquire() (ids grow in call order), whatever timers fire and
\* whatever calls arrive in between.
C2_FifoRelease ==
  \A l \in Limiters :
    LET s == releaseOrder[l] \o queue[l]
    IN \A j, k \in 1..Len(s) : j < k => s[j] < s[k]

C2_Witness ==
  /\ Len(releaseOrder[UnderTest]) >= 2
  /\ \A k \in 1..Len(releaseOrder[UnderTest]) :
       calls[releaseOrder[UnderTest][k]].status = "released"
  /\ queue[UnderTest] # <<>>

\* C3: without reset(), every acquire() that has resolved was paid for by one
\* decrement of the level made while the refilled level was at least one
\* token, and no acquire() ends in any state but resolved or still queued.
C3_ResolvedHoldsToken ==
  \A l \in Limiters :
    resets[l] = 0 =>
      /\ \A i \in CallsOn(l) :
           /\ calls[i].status \in {"immediate", "queued", "released"}
           /\ Resolved(i) => calls[i].hadToken
      /\ reserved[l] = Cardinality({i \in CallsOn(l) : Resolved(i)})

C3_Witness ==
  /\ resets[UnderTest] = 0
  /\ \E i, j \in CallsOn(UnderTest) :
       calls[i].status = "immediate" /\ calls[j].status = "released"

\* C15: no limiter exists whose refill rate is not positive or whose
\* capacity is below one token: the constructor rejects such options.
C15_ConstructorRejects ==
  \A l \in Limiters : refillRate[l] > 0 /\ maxTokens[l] >= 1

\* C16: in every state of a limiter, however built and driven, the token
\* level is at least 0 and at most the capacity.
C16_LevelInvariant ==
  \A l \in Limiters : 0 <= tokens[l] /\ tokens[l] <= maxTokens[l] * Milli

\* C17: reset() leaves the queue empty and the level at capacity, resolves
\* every waiter that was queued and takes no token for any of them.
C17_ResetFlushes ==
  [][\A l \in Limiters :
       resets'[l] = resets[l] + 1 =>
         /\ queue'[l] = <<>>
         /\ tokens'[l] = maxTokens[l] * Milli
         /\ \A k \in 1..Len(queue[l]) : calls'[queue[l][k]].status = "flushed"
         /\ reserved'[l] = reserved[l]]_vars

\* Two waiters have just been flushed by reset().
C17_Witness ==
  /\ resets[UnderTest] = 1
  /\ Cardinality({i \in CallsOn(UnderTest) : calls[i].status = "flushed"}) >= 2
  /\ queue[UnderTest] = <<>>
  /\ tokens[UnderTest] = maxTokens[UnderTest] * Milli

\* C27: a call of acquire() or tryAcquire() made while the wait queue holds
\* a waiter is not admitted at once, ahead of the waiters in the queue.
C27_NoOvertaking ==
  [][\A l \in Limiters :
       LET t == refill(tokens[l], maxTokens[l], refillRate[l], elapsedMs[l])
           acquired == \E i \in 1..MaxCalls :
                         /\ calls[i].status = "none"
                         /\ calls'[i].status = "immediate" /\ calls'[i].lim = l
           tryAcquired == /\ calls' = calls /\ queue' = queue /\ elapsedMs'[l] = 0
                          /\ hasToken(t) /\ tokens'[l] = t - Milli
       IN (acquired \/ tryAcquired) => queue[l] = <<>>]_vars

\* C28: whenever the wait queue of a limiter is not empty, a timer set by
\* scheduleQueueProcessing is pending.
C28_NoLostWakeup ==
  \A l \in Limiters : queue[l] # <<>> => timers[l] # <<>>

\* A waiter queued after reset() had emptied the queue, behind a later timer
\* than the one left over.
C28_Witness ==
  /\ resets[UnderTest] = 1
  /\ queue[UnderTest] # <<>>
  /\ Len(timers[UnderTest]) = 2

\* C29: with no reset(), the callers a limiter admits within any interval of
\* time number at most its capacity plus refillRate times the length of the
\* interval.
C29_AdmissionRate ==
  \A l \in Limiters : resets[l] = 0 => excess[l] <= maxTokens[l] * Milli

\* The bound is met: the capacity was spent at once and every token that has
\* refilled since went to a waiter on its wake-up.
C29_Witness ==
  /\ resets[UnderTest] = 0
  /\ excess[UnderTest] = maxTokens[UnderTest] * Milli
  /\ \E i \in CallsOn(UnderTest) : calls[i].status = "released"
  /\ \E i \in CallsOn(UnderTest) : calls[i].status = "immediate"

\* C4: every waiter that acquire() queued is eventually released.
C4_EveryWaiterReleased ==
  \A i \in 1..MaxCalls :
    (calls[i].status = "queued") ~> (calls[i].status \in {"released", "flushed"})

\* ------------------------------------------------------------- cache claims
\* The set last made under <<prefix, key>>, when there is one.
LastSet(prefix, key) == written[<<prefix, key>>]
WasSet(prefix, key) == <<prefix, key>> \in DOMAIN written

Follows(i, j) ==
  /\ inv[i].prefix = inv[j].prefix /\ inv[i].key = inv[j].key
  /\ inv[i].sets = 1
  /\ inv[j].began > inv[i].order
  /\ \A k \in DOMAIN inv \ {i, j} :
       ~(/\ inv[k].prefix = inv[i].prefix /\ inv[k].key = inv[i].key
         /\ inv[k].sets = 1
         /\ inv[k].order > inv[i].order /\ inv[k].order < inv[j].began)
  /\ inv[j].at - inv[i].doneAt < inv[i].ttl

Live(d, clock) == [k \in {x \in DOMAIN d : check(d[x], clock)} |-> d[k]]

\* C13: when the factory of a getOrSet rejects, getOrSet rejects with the
\* same error and that call has written nothing: neither its lookup nor its
\* failure changes what the cache holds.
C13_FactoryFailure ==
  [][\A i \in Invocations :
       /\ (i \notin DOMAIN inv /\ i \in DOMAIN inv') => Live(data', now) = Live(data, now)
       /\ (i \in DOMAIN inv /\ inv[i].pc = "factory" /\ inv'[i].raised # Undefined) =>
            /\ data' = data
            /\ inv'[i].pc = "done"
            /\ inv'[i].error = inv'[i].raised
            /\ inv'[i].result = Undefined
            /\ inv'[i].sets = 0]_vars

\* A call has failed while the entry a concurrent call had set is still there.
C13_Witness ==
  \E i, j \in DOMAIN inv :
    /\ inv[i].raised # Undefined
    /\ inv[i].error = inv[i].raised
    /\ inv[j].sets = 1
    /\ inv[j].prefix = inv[i].prefix /\ inv[j].key = inv[i].key
    /\ inv[j].order < inv[i].order
    /\ generateKey(inv[i].prefix, inv[i].key) \in DOMAIN data
    /\ data[generateKey(inv[i].prefix, inv[i].key)].v = inv[j].made

\* Calls i and j of getOrSet were on the same key and both saw a miss.
BothMissed(i, j) ==
  /\ i # j
  /\ inv[i].prefix = inv[j].prefix /\ inv[i].key = inv[j].key
  /\ ~inv[i].hit /\ ~inv[j].hit

\* C18: two calls of getOrSet on the same key that both see a miss both
\* invoke the factory, and once both factories have resolved the store holds
\* the value of the one that resolved last.
C18_ConcurrentMisses ==
  \A i, j \in DOMAIN inv :
    BothMissed(i, j) =>
      /\ inv[i].factoryCalls = 1 /\ inv[j].factoryCalls = 1
      /\ (/\ inv[i].sets = 1 /\ inv[j].sets = 1
          /\ inv[i].order < inv[j].order
          /\ LastSet(inv[j].prefix, inv[j].key).by = j
          /\ generateKey(inv[j].prefix, inv[j].key) \in DOMAIN data) =>
           data[generateKey(inv[j].prefix, inv[j].key)].v = inv[j].made

C18_Witness ==
  \E i, j \in DOMAIN inv :
    /\ BothMissed(i, j)
    /\ inv[j].began < inv[i].order
    /\ inv[i].sets = 1 /\ inv[j].sets = 1
    /\ inv[i].order < inv[j].order
    /\ inv[i].made # inv[j].made
    /\ data[generateKey(inv[j].prefix, inv[j].key)].v = inv[j].made

\* C19: the composite key of an entry is that of no other namespace and key
\* than those it was set under, and get(namespace, key) returns what was last
\* set under that very namespace and key and not deleted under it since.
C19_NamespaceIdentity ==
  /\ \A cacheKey \in DOMAIN owner :
       \A prefix \in AnyPrefixes, key \in AnyKeys :
         generateKey(prefix, key) = cacheKey => <<prefix, key>> = owner[cacheKey]
  /\ got.asked =>
       got.value = IF WasSet(got.prefix, got.key) THEN LastSet(got.prefix, got.key).v
                   ELSE Undefined

\* ---------------------------------------------------- retry executor claims
\* The delay of attempt n before jitter.
Unjittered(options, n) ==
  Min(options.maxDelay, options.initialDelay * Pow(options.backoffMultiplier, n - 1))

C26_JitterBound ==
  backoff.opts.jitter =>
    \A n \in 1..Len(backoff.delays) :
      LET d == Unjittered(backoff.opts, n)
          waited == backoff.delays[n]
      IN /\ waited >= 0
         /\ waited >= (3 * d) \div 4
         /\ 4 * waited <= 5 * d

\* One delay was drawn below and the next above its delay before jitter.
C26_Witness ==
  /\ backoff.opts.jitter
  /\ Len(backoff.delays) >= 2
  /\ backoff.delays[1] = (3 * Unjittered(backoff.opts, 1)) \div 4
  /\ backoff.delays[1] < Unjittered(backoff.opts, 1)
  /\ backoff.delays[2] > Unjittered(backoff.opts, 2)

AllRetryable(r) == \A k \in 1..Len(r.verdicts) : r.verdicts[k]

\* C6: an operation that fails every time with a retryable error is invoked
\* maxRetries + 1 times and withRetry then throws the error of the last
\* attempt; one that fails with a non-retryable error is invoked once and
\* withRetry throws at once, without sleeping.
C6_RetryExhaustion ==
  LET r == rt[Standalone]
  IN (Standalone \in DOMAIN rt /\ r.pc = "thrown") =>
       /\ AllRetryable(r) =>
            /\ r.fnCalls = r.opts.maxRetries + 1
            /\ r.sleeps = r.opts.maxRetries
            /\ r.lastErrorOf = r.fnCalls
            /\ r.lastError = wrapError(r.caught)
       /\ ~r.verdicts[1] =>
            /\ r.fnCalls = 1
            /\ r.sleeps = 0
            /\ r.lastErrorOf = 1

C6_Witness ==
  LET r == rt[Standalone]
  IN /\ Standalone \in DOMAIN rt
     /\ r.pc = "thrown"
     /\ AllRetryable(r)
     /\ r.opts.maxRetries >= 2
     /\ r.fnCalls = r.opts.maxRetries + 1

\* What the claim calls a network-transport failure: an Error whose message
\* names one of the five failures, or an axios error that got no response.
TransportFailure(e) ==
  \/ e.isError /\ \E mk \in TransportMarkers : includes(e.message, mk)
  \/ e.isAxiosError /\ e.response = NoResponse
\* An error carrying an HTTP response: an axios error with its response.
CarriesResponse(e) == e.isAxiosError /\ e.response # NoResponse

Classified(r) == Len(r.verdicts) > 0
Verdict(r) == r.verdicts[Len(r.verdicts)]

NoEviction == \A q \in DOMAIN req : req[q].answer.status # 401
\* Request q has been through the cache test of getAccessToken().
ReadCredential(q) == req[q].pc \in {"token", "http", "done"} /\ ~req[q].fromCache
\* Request q obtained a credential from the token endpoint.
Exchanged(q) == ReadCredential(q) /\ req[q].viaExchange /\ req[q].token # 0
UsedWithinTtl ==
  \A p, q \in DOMAIN req :
    /\ Exchanged(p) /\ ReadCredential(q)
    /\ req[q].cred = req[p].token
    /\ req[q].readAt < req[p].issuedAt + DEFAULT_TTL.TOKEN
    => ~req[q].viaExchange
OneReExchange ==
  \A p, q \in DOMAIN req :
    p # q /\ Exchanged(p) /\ Exchanged(q) /\ req[p].cred >= 1 =>
      req[p].cred # req[q].cred

\* Request q is answered 401 in this step.
Answered401(q) ==
  req[q].pc = "http" /\ req'[q] # req[q] /\ req'[q].answer.status = 401

C22_ConfigFailsFast ==
  (env.WHO_CLIENT_ID = "" \/ env.WHO_CLIENT_SECRET = "") =>
    /\ ~whoClientInstance
    /\ exchanges = 0 /\ tokenCache = 0
    /\ CallsOn("who") = {}
    /\ \A q \in DOMAIN req :
         IF req[q].op.client = "who"
         THEN /\ req[q].pc = "done" /\ req[q].result = "threw"
              /\ req[q].error.code = "AUTH_CONFIG_ERROR"
              /\ req[q].callId = 0 /\ req[q].gets = 0 /\ ~req[q].viaExchange
         ELSE req[q].error.code # "AUTH_CONFIG_ERROR"

\* With only one of the two variables set, a call of the WHO client threw
\* AUTH_CONFIG_ERROR and a call of the MeSH client returned its result.
C22_Witness ==
  /\ env.WHO_CLIENT_ID # "" /\ env.WHO_CLIENT_SECRET = ""
  /\ \E p, q \in DOMAIN req :
       /\ req[p].op.client = "who" /\ req[p].error.code = "AUTH_CONFIG_ERROR"
       /\ req[q].op.client = "mesh" /\ req[q].pc = "done" /\ req[q].gets = 1
       /\ req[q].result \notin {"none", "threw"}

\* C23: when the GET of an operation has failed for good with anything but
\* not-found, the operation that made it rejects: getParents does not return
\* an array that just lacks the parent it could not fetch.
C23_NoSilentFailure ==
  \A g \in 1..ParentsInvocations :
    (/\ parentsSettled(g)
     /\ req[g].result = "record"
     /\ req[ParentOf(g)].result = "threw"
     /\ req[ParentOf(g)].error.code # "NOT_FOUND") => getParents(g).threw

C30_EvictionScoped ==
  [][\A q \in DOMAIN req :
       (Answered401(q) /\ tokenCache # 0 /\ tokenCache # req[q].token) =>
         tokenCache' = tokenCache]_vars

\* C20: with no credential evicted, a request that looks for the credential
\* before the TTL of the latest one has elapsed uses it and starts no
\* exchange, and a credential whose TTL has elapsed is replaced by exactly
\* one exchange: no two requests obtain a credential in place of the same
\* expired one.
C20_CredentialRefresh == NoEviction => UsedWithinTtl /\ OneReExchange

\* Request q begins in this step and goes to its client's limiter.
Enters(q) == q \notin DOMAIN req /\ q \in DOMAIN req' /\ ~req'[q].fromCache
\* The limiter l is as it was.
Untouched(l) ==
  tokens'[l] = tokens[l] /\ queue'[l] = queue[l] /\ timers'[l] = timers[l]
\* The provider behind a client: LOINC and MeSH are both served by the NLM.
Provider(client) == IF client = "mesh" THEN "nlm" ELSE client

RECURSIVE SumGets(_)
SumGets(S) ==
  IF S = {} THEN 0
  ELSE LET q == CHOOSE x \in S : TRUE IN req[q].gets + SumGets(S \ {q})

\* Raw GETs sent so far to the upstreams limiter l governs.
HttpCallsTo(l) ==
  SumGets({q \in DOMAIN req : req[q].callId # 0 /\ LimiterOf(req[q].op.client) = l})
\* Tokens limiter l has admitted so far.
TokensAdmitted(l) == Cardinality({i \in CallsOn(l) : Resolved(i)})

\* The call of q is over and was not served from the cache.
Completed(q) == q \in DOMAIN req /\ req[q].pc = "done" /\ ~req[q].fromCache
\* Every raw GET of q was answered alike, with an answer of kind k.
EveryAnswer(q, k) == req[q].gets > 0 /\ req[q].uniform /\ req[q].answer = k

\* C5: every raw HTTP call to a governed upstream, first attempt or retry,
\* is preceded by its own acquisition of the upstream's limiter token: the
\* raw HTTP calls sent to an upstream never outnumber the tokens its limiter
\* has admitted.
C5_NoCallWithoutToken == \A l \in Limiters : HttpCallsTo(l) <= TokensAdmitted(l)

\* C8: a client request whose upstream answers every attempt with the same
\* transient status (408, 429, 500, 502, 503, 504) makes maxRetries + 1 = 3
\* raw HTTP attempts and only then throws.
C8_TransientStatusExhaustsRetries ==
  \A q \in Requests, status \in DefaultRetryableStatusCodes :
    (Completed(q) /\ EveryAnswer(q, [status |-> status, cause |-> "response"])) =>
      /\ req[q].gets = ClientOptions.maxRetries + 1
      /\ req[q].result = "threw"

\* C9: a point lookup whose upstream answers 404 returns the not-found
\* result (null) to its caller and does not throw.
C9_NotFoundIsAResult ==
  \A q \in Requests :
    (Completed(q) /\ req[q].answer = [status |-> 404, cause |-> "response"]) =>
      req[q].result = "null"

\* C10: a client request whose raw HTTP calls all time out is retried like
\* one whose connections all fail: it makes maxRetries + 1 attempts before
\* the error reaches the caller.
C10_TimeoutRetried ==
  \A q \in Requests, cause \in {"timeout", "connection"} :
    (Completed(q) /\ EveryAnswer(q, [status |-> NoResponse, cause |-> cause])) =>
      /\ req[q].gets = ClientOptions.maxRetries + 1
      /\ req[q].result = "threw"

====
